---- MODULE Spec2Model ----
(***************************************************************************)
(* Bounty lifecycle of the DevAsign API: the bounties, submissions,        *)
(* disputes and applications tables and the request handlers that move     *)
(* them.  Every handler is a sequence of awaited store calls; each awaited *)
(* call is one atomic step, a db.transaction(...) block commits as one     *)
(* step, and two requests may be in flight at the same time.               *)
(***************************************************************************)
EXTENDS Integers, Sequences, FiniteSets, Bags, TLC

\* ---------------------------------------------------------------- bounds
MaxSubs == 2
MaxDisputes == 1
MaxExtensions == 2
MaxTime == 3
MaxClock == 3

\* ------------------------------------------------------------- value sets
Null == "null"
Absent == "absent"
CreatorId == "C1"
Users == {"C1", "D1"}
\* callers of a read: the two parties and somebody else
Principals == Users \cup {"U1"}
Reqs == {"r1", "r2"}
BountyId == "B1"

statusEnum == {"open", "assigned", "in_review", "completed", "cancelled"}
submissionStatusEnum == {"pending", "approved", "rejected", "disputed"}
disputeStatusEnum == {"open", "resolved", "dismissed"}

SubIds == 1..MaxSubs
DisputeIds == 1..MaxDisputes

\* request payloads drawn by the callers
Resolutions == {"resolved_developer", "resolved_creator", "other"}
NoReason == <<"null">>
ReasonInputs == {NoReason, <<>>, <<" ">>, <<" ", "t", " ">>}
PrUrlInputs == {Absent, "not-a-url", "ftp://x/pr/1", "https://x/pr/1"}
PatchStatusInputs == statusEnum \cup {Absent}
PatchAssigneeInputs == {Absent, Null, "D1"}
BountyIdInputs == {"B1", "B0", "invalid"}
CoverLetterInputs == {"", "I want this"}

\* supporting_links of a submit body: left out, not an array, or an array
NoLinks == [kind |-> "absent", items |-> <<>>]
SupportingLinksInputs ==
    {NoLinks, [kind |-> "string", items |-> <<>>],
     [kind |-> "array", items |-> <<"https://x/pr/1">>],
     [kind |-> "array", items |-> <<"https://x/pr/1", "not-a-url">>]}

\* points in time: the clock reading of an extend call and the deadline of
\* the bounty, with requested deadlines on both sides of each
Now == 1
BountyDeadline == 2
DeadlineInputs ==
    {[kind |-> "absent", t |-> 0], [kind |-> "invalid", t |-> 0]}
        \cup {[kind |-> "date", t |-> n] : n \in 0..MaxTime}

\* errors a rejected insert may carry: the code of the driver (absent on an
\* error that is not the database's) and the words of its message
UniqueViolationCode == "23505"
NoMessage == <<>>
ErrorCodes == {UniqueViolationCode, "40001", Absent}
ErrorMessages == {NoMessage, <<"violates", "unique", "constraint">>,
                  <<"constraint", "unique">>}
ErrorInputs == {[code |-> c, message |-> m] : c \in ErrorCodes, m \in ErrorMessages}
NoError == [code |-> "none", message |-> NoMessage]

\* disputeRows: how many rows the disputes table may hold in this run
\* payouts: the payouts triggered so far, as (bounty, payee) pairs
VARIABLES bounty, submissions, disputes, applications, extensionRequests, reqs,
          observed, disputeRows, payouts

\* The recommendation read path: the users' tech stacks, the
\* recommendation_cache table, the recommendationsCache map of the process and
\* its table-ready flag, the clock, how db.execute behaves in this run, and
\* the recommendation requests in flight.
VARIABLES techStack, recommendation_cache, recommendationsCache,
          recommendationCacheTableReady, clock, executeMode, recReqs

recStore == <<techStack, recommendation_cache, recommendationsCache,
              recommendationCacheTableReady, clock, executeMode>>
recVars == <<recStore, recReqs>>

vars == <<bounty, submissions, disputes, applications, extensionRequests, reqs,
          observed, disputeRows, payouts, recVars>>
store == <<bounty, submissions, disputes, applications, extensionRequests,
           observed, disputeRows, payouts, recVars>>
lifecycle == <<bounty, submissions, disputes, applications, extensionRequests,
               reqs, observed, disputeRows, payouts>>

\* ------------------------------------------------------------ pure helpers
RECURSIVE TrimStart(_)
TrimStart(s) == IF s # <<>> /\ Head(s) = " " THEN TrimStart(Tail(s)) ELSE s

RECURSIVE TrimEnd(_)
TrimEnd(s) ==
    IF s # <<>> /\ s[Len(s)] = " " THEN TrimEnd(SubSeq(s, 1, Len(s) - 1)) ELSE s

\* String.prototype.trim
Trim(s) == TrimEnd(TrimStart(s))

\* typeof x === 'string' (a missing field is undefined)
IsString(s) == s # NoReason

\* new URL(x) does not throw
ParsesAsUrl(u) == u \in {"ftp://x/pr/1", "https://x/pr/1"}

isValidHttpUrl(u) == ParsesAsUrl(u) /\ u = "https://x/pr/1"

uuidRegexTest(b) == b # "invalid"

\* String.prototype.includes, on the words of a message
Includes(msg, words) ==
    \E i \in 1..(Len(msg) - Len(words) + 1) :
        SubSeq(msg, i, i + Len(words) - 1) = words

isCreator(u, b) == u = b.creatorId

isAssignee(u, b) == b.assigneeId # Null /\ u = b.assigneeId

\* ---------------------------------------------------------------- requests
Idle ==
    [op |-> "idle", pc |-> "done", user |-> Null, id |-> 0,
     resolution |-> Null, rejection_reason |-> NoReason,
     status |-> Absent, assigneeId |-> Absent, applicantId |-> Null,
     resp |-> 0, error |-> Null, caught |-> NoError, supporting_links |-> NoLinks]

Free(r) == reqs[r].pc = "done"

\* c.json({ error }, code): the handler returns and its locals are gone; the
\* answer stays visible in the slot of a caller that is being observed
Reply(r, q, code, err) ==
    IF r \in observed
    THEN [q EXCEPT !.pc = "done", !.resp = code, !.error = err,
                   !.rejection_reason = NoReason, !.status = Absent,
                   !.assigneeId = Absent]
    ELSE Idle

\* ------------------------------------------------- recommendation value sets
\* 15 * 60 * 1000 ms, in ticks of the clock
RECOMMENDATION_CACHE_TTL_MS == 2

\* the user whose recommendations are asked for
RecUsers == {"D1"}

\* tech stacks as arrays of tags, a tag as its characters
TechStackInputs ==
    {<< <<"a">>, <<"b">> >>,
     << <<"A">>, <<" ">>, <<"b", " ">> >>,
     << <<"a", "|", "b">> >>}

ExecuteModes == {"up", "down", "flaky"}

RecIdle ==
    [pc |-> "done", user |-> Null, tags |-> <<>>, techKey |-> <<>>, now |-> 0,
     data |-> <<>>, expiresAt |-> 0, cached |-> FALSE, queried |-> FALSE,
     repeat |-> FALSE, resp |-> 0]

\* nothing cached, no request in flight
RecInit ==
    /\ techStack = [u \in RecUsers |-> << <<"a">>, <<"b">> >>]
    /\ recommendation_cache = << >>
    /\ recommendationsCache = << >>
    /\ recommendationCacheTableReady = FALSE
    /\ clock = 0
    /\ executeMode = "up"
    /\ recReqs = [r \in Reqs |-> RecIdle]

\* a freshly created bounty: status defaults to open, nobody is assigned
Init ==
    /\ bounty = [status |-> "open", assigneeId |-> Null, creatorId |-> CreatorId,
                 deadline |-> BountyDeadline]
    /\ submissions = <<>>
    /\ disputes = <<>>
    /\ applications = EmptyBag
    /\ extensionRequests = <<>>
    /\ payouts = <<>>
    /\ reqs = [r \in Reqs |-> Idle]
    /\ observed = {}
    /\ disputeRows = MaxDisputes
    /\ RecInit

\* ------------------------------------------------- POST /submissions/:id/approve
\* a laxer guard that only refuses rejected submissions
CanApproveNotRejected(status) == status # "rejected"

CanApprove(status) == status = "pending"

\* an approval whose submission write is lost
ApproveSubmissionLost(subs, sid) == subs

ApproveSubmission(subs, sid) == [subs EXCEPT ![sid].status = "approved"]

StartApprove(r) ==
    /\ Free(r)
    /\ \E u \in Users, sid \in SubIds :
         LET q == [Idle EXCEPT !.op = "approve", !.user = u, !.id = sid] IN
         reqs' = [reqs EXCEPT ![r] =
             IF sid \notin DOMAIN submissions
             THEN Reply(r, q, 404, "Submission not found")
             ELSE IF bounty.creatorId # u THEN Reply(r, q, 403, "Forbidden")
                  ELSE IF ~CanApprove(submissions[sid].status)
                       THEN Reply(r, q, 422, "Only pending submissions can be approved")
                       ELSE [q EXCEPT !.pc = "tx"]]
    /\ UNCHANGED store

\* the payout after the commit is a TODO in the handler: payouts stays as it is
ApproveTx(r) ==
    /\ reqs[r].op = "approve" /\ reqs[r].pc = "tx"
    /\ submissions' = ApproveSubmission(submissions, reqs[r].id)
    /\ bounty' = [bounty EXCEPT !.status = "completed"]
    /\ reqs' = [reqs EXCEPT ![r] =
                  Reply(r, @, 200, "Submission approved and payment initiated")]
    /\ UNCHANGED <<recVars, observed, disputeRows, payouts, extensionRequests, disputes, applications>>

\* -------------------------------------------------- POST /submissions/:id/reject
\* a check that only refuses a reason that is not a string
ReasonMissingOnlyNonString(reason) == ~IsString(reason)

\* typeof rejection_reason !== 'string' || rejection_reason.trim() === ''
ReasonMissing(reason) == ~IsString(reason) \/ Trim(reason) = <<>>

StartReject(r) ==
    /\ Free(r)
    /\ \E u \in Users, sid \in SubIds, reason \in ReasonInputs :
         LET q == [Idle EXCEPT !.op = "reject", !.user = u, !.id = sid] IN
         reqs' = [reqs EXCEPT ![r] =
             IF sid \notin DOMAIN submissions
             THEN Reply(r, q, 404, "Submission not found")
             ELSE IF bounty.creatorId # u THEN Reply(r, q, 403, "Forbidden")
                  ELSE IF submissions[sid].status # "pending"
                       THEN Reply(r, q, 422, "Only pending submissions can be rejected")
                  ELSE IF ReasonMissing(reason)
                       THEN Reply(r, q, 400, "rejection_reason is required and must be a non-empty string")
                       ELSE [q EXCEPT !.pc = "tx", !.rejection_reason = reason]]
    /\ UNCHANGED store

\* a rejection that reopens the bounty and drops the assignee
RejectTxReopens(r) ==
    /\ reqs[r].op = "reject" /\ reqs[r].pc = "tx"
    /\ submissions' = [submissions EXCEPT
                         ![reqs[r].id].status = "rejected",
                         ![reqs[r].id].rejectionReason = Trim(reqs[r].rejection_reason)]
    /\ bounty' = [bounty EXCEPT !.status = "open", !.assigneeId = Null]
    /\ reqs' = [reqs EXCEPT ![r] = Reply(r, @, 200, "Submission rejected")]
    /\ UNCHANGED <<recVars, observed, disputeRows, payouts, extensionRequests, disputes, applications>>

RejectTx(r) ==
    /\ reqs[r].op = "reject" /\ reqs[r].pc = "tx"
    /\ submissions' = [submissions EXCEPT
                         ![reqs[r].id].status = "rejected",
                         ![reqs[r].id].rejectionReason = Trim(reqs[r].rejection_reason)]
    /\ bounty' = [bounty EXCEPT !.status = "assigned"]
    /\ reqs' = [reqs EXCEPT ![r] = Reply(r, @, 200, "Submission rejected")]
    /\ UNCHANGED <<recVars, observed, disputeRows, payouts, extensionRequests, disputes, applications>>

\* ------------------------------------------------------ GET /submissions/:id
\* a check that forgets the bounty's creator
CanViewSubmissionOwnerOnly(u, sub, b) == sub.developerId = u

\* submission.developerId !== user.id && bounty?.creatorId !== user.id, negated
CanViewSubmission(u, sub, b) == sub.developerId = u \/ b.creatorId = u

StartView(r) ==
    /\ Free(r)
    /\ \E u \in Principals, sid \in SubIds :
         LET q == [Idle EXCEPT !.op = "view", !.user = u, !.id = sid] IN
         reqs' = [reqs EXCEPT ![r] =
             IF sid \notin DOMAIN submissions
             THEN Reply(r, q, 404, "Submission not found")
             ELSE [q EXCEPT !.pc = "bounty"]]
    /\ UNCHANGED store

\* the findFirst on bounties and the check on its result
ViewBounty(r) ==
    /\ reqs[r].op = "view" /\ reqs[r].pc = "bounty"
    /\ reqs' = [reqs EXCEPT ![r] =
             IF ~CanViewSubmission(reqs[r].user, submissions[reqs[r].id], bounty)
             THEN Reply(r, @, 403, "Forbidden")
             ELSE [@ EXCEPT !.pc = "dispute"]]
    /\ UNCHANGED store

\* the findFirst on disputes, then the answer
ViewDispute(r) ==
    /\ reqs[r].op = "view" /\ reqs[r].pc = "dispute"
    /\ reqs' = [reqs EXCEPT ![r] = Reply(r, @, 200, "ok")]
    /\ UNCHANGED store

\* ------------------------------------------------- POST /submissions/:id/dispute
\* a laxer guard that only refuses pending submissions
CanDisputeNotPending(status) == status # "pending"

CanDispute(status) == status = "rejected"

StartDispute(r) ==
    /\ Free(r)
    /\ \E u \in Users, sid \in SubIds :
         LET q == [Idle EXCEPT !.op = "dispute", !.user = u, !.id = sid] IN
         reqs' = [reqs EXCEPT ![r] =
             IF sid \notin DOMAIN submissions
             THEN Reply(r, q, 404, "Submission not found")
             ELSE IF submissions[sid].developerId # u THEN Reply(r, q, 403, "Forbidden")
                  ELSE IF ~CanDispute(submissions[sid].status)
                       THEN Reply(r, q, 422, "Can only dispute a rejected submission")
                       ELSE [q EXCEPT !.pc = "existing"]]
    /\ UNCHANGED store

\* the findFirst on disputes, then the body checks that follow it
DisputeExisting(r) ==
    /\ reqs[r].op = "dispute" /\ reqs[r].pc = "existing"
    /\ \E reason \in ReasonInputs :
         reqs' = [reqs EXCEPT ![r] =
             IF \E d \in DOMAIN disputes : disputes[d].submissionId = reqs[r].id
             THEN Reply(r, @, 409, "A dispute already exists for this submission")
             ELSE IF ~IsString(reason) \/ Trim(reason) = <<>>
                  THEN Reply(r, @, 400, "reason is required and must be a non-empty string")
                  ELSE [@ EXCEPT !.pc = "insert"]]
    /\ UNCHANGED store

\* an insert that also marks the submission as disputed
DisputeInsertMarksSubmission(r) ==
    /\ reqs[r].op = "dispute" /\ reqs[r].pc = "insert"
    /\ Len(disputes) < disputeRows
    /\ disputes' = Append(disputes, [submissionId |-> reqs[r].id, status |-> "open"])
    /\ submissions' = [submissions EXCEPT ![reqs[r].id].status = "disputed"]
    /\ reqs' = [reqs EXCEPT ![r] = Reply(r, @, 201, "created")]
    /\ UNCHANGED <<recVars, observed, disputeRows, payouts, extensionRequests, bounty, applications>>

DisputeInsert(r) ==
    /\ reqs[r].op = "dispute" /\ reqs[r].pc = "insert"
    /\ Len(disputes) < disputeRows
    /\ disputes' = Append(disputes, [submissionId |-> reqs[r].id, status |-> "open"])
    /\ reqs' = [reqs EXCEPT ![r] = Reply(r, @, 201, "created")]
    /\ UNCHANGED <<recVars, observed, disputeRows, payouts, extensionRequests, bounty, submissions, applications>>

\* --------------------------------------------------- POST /disputes/:id/resolve
\* a resolution for the developer that leaves the bounty as it was
ResolvedDeveloperBountyKept(b) == b

ResolvedDeveloperBounty(b) == [b EXCEPT !.status = "completed"]

\* a reopening that forgets to clear the assignee
ResolvedCreatorBountyKeepsAssignee(b) == [b EXCEPT !.status = "open"]

ResolvedCreatorBounty(b) == [b EXCEPT !.status = "open", !.assigneeId = Null]

\* a laxer guard that only refuses dismissed disputes
CanResolveNotDismissed(status) == status # "dismissed"

CanResolve(status) == status = "open"

StartResolve(r) ==
    /\ Free(r)
    /\ \E u \in Users, did \in DisputeIds, resolution \in Resolutions :
         LET q == [Idle EXCEPT !.op = "resolve", !.user = u, !.id = did] IN
         reqs' = [reqs EXCEPT ![r] =
             IF did \notin DOMAIN disputes
             THEN Reply(r, q, 404, "Dispute not found")
             ELSE IF ~CanResolve(disputes[did].status)
                  THEN Reply(r, q, 422, "Dispute is already resolved")
                  ELSE IF bounty.creatorId # u THEN Reply(r, q, 403, "Forbidden")
                  ELSE IF resolution # "resolved_developer"
                          /\ resolution # "resolved_creator"
                       THEN Reply(r, q, 400, "resolution must be either resolved_developer or resolved_creator")
                       ELSE [q EXCEPT !.pc = "tx", !.resolution = resolution]]
    /\ UNCHANGED store

\* the payout of the resolved_developer branch is a TODO as well
ResolveTx(r) ==
    /\ reqs[r].op = "resolve" /\ reqs[r].pc = "tx"
    /\ LET did == reqs[r].id
           sid == disputes[did].submissionId IN
       IF reqs[r].resolution = "resolved_developer"
       THEN /\ disputes' = [disputes EXCEPT ![did].status = "resolved"]
            /\ submissions' = [submissions EXCEPT ![sid].status = "approved"]
            /\ bounty' = ResolvedDeveloperBounty(bounty)
            /\ reqs' = [reqs EXCEPT ![r] =
                 Reply(r, @, 200, "Dispute resolved in favour of the developer. Payment initiated.")]
       ELSE /\ disputes' = [disputes EXCEPT ![did].status = "dismissed"]
            /\ submissions' = [submissions EXCEPT ![sid].status = "rejected"]
            /\ bounty' = ResolvedCreatorBounty(bounty)
            /\ reqs' = [reqs EXCEPT ![r] =
                 Reply(r, @, 200, "Dispute dismissed. Bounty reopened for new assignment.")]
    /\ UNCHANGED <<recVars, observed, disputeRows, payouts, extensionRequests, applications>>

\* ------------------------------- POST /tasks/:bountyId/submit (insert then update)
NewSubmission(u) ==
    [developerId |-> u, status |-> "pending", rejectionReason |-> NoReason]

StartSubmit(r) ==
    /\ Free(r)
    /\ \E u \in Users :
         LET q == [Idle EXCEPT !.op = "submit", !.user = u] IN
         reqs' = [reqs EXCEPT ![r] =
             IF ~isAssignee(u, bounty) THEN Reply(r, q, 403, "Forbidden")
             ELSE [q EXCEPT !.pc = "status"]]
    /\ UNCHANGED store

\* Array.isArray(supporting_links) ? supporting_links : []
SubmitStatusWith(r, links) ==
    /\ reqs[r].op = "submit" /\ reqs[r].pc = "status"
    /\ \E pr_url \in PrUrlInputs, supporting_links \in links :
         LET s == [reqs[r] EXCEPT !.supporting_links = supporting_links] IN
         reqs' = [reqs EXCEPT ![r] =
             IF bounty.status # "assigned"
             THEN Reply(r, s, 422, "Bounty is not in the assigned state")
             ELSE IF pr_url = Absent
                  THEN Reply(r, s, 400, "pr_url is required and must be a non-empty string")
             ELSE IF ~ParsesAsUrl(pr_url)
                  THEN Reply(r, s, 400, "pr_url must be a valid URL")
                  ELSE [s EXCEPT !.pc = "insert"]]
    /\ UNCHANGED store

\* a body without supporting_links
SubmitStatus(r) == SubmitStatusWith(r, {NoLinks})

\* a body with any supporting_links
SubmitStatusAnyLinks(r) == SubmitStatusWith(r, SupportingLinksInputs)

SubmitInsert(r) ==
    /\ reqs[r].op = "submit" /\ reqs[r].pc = "insert"
    /\ Len(submissions) < MaxSubs
    /\ submissions' = Append(submissions, NewSubmission(reqs[r].user))
    /\ reqs' = [reqs EXCEPT ![r].pc = "update", ![r].id = Len(submissions) + 1]
    /\ UNCHANGED <<recVars, observed, disputeRows, payouts, extensionRequests, bounty, disputes, applications>>

SubmitUpdate(r) ==
    /\ reqs[r].op = "submit" /\ reqs[r].pc = "update"
    /\ bounty' = [bounty EXCEPT !.status = "in_review"]
    /\ reqs' = [reqs EXCEPT ![r] = Reply(r, @, 201, "Work submitted for review")]
    /\ UNCHANGED <<recVars, observed, disputeRows, payouts, extensionRequests, submissions, disputes, applications>>

\* --------------------------------- POST /tasks/:bountyId/submit (transactional)
\* the loop over payload.supporting_links: the error of the first item that
\* fails, Null when none does
RECURSIVE LinkItemsError(_)
LinkItemsError(items) ==
    IF items = <<>> THEN Null
    ELSE IF Head(items) = ""
         THEN "supporting_links must only contain non-empty strings"
    ELSE IF ~isValidHttpUrl(Head(items))
         THEN "supporting_links must only contain valid http(s) URLs"
         ELSE LinkItemsError(Tail(items))

SupportingLinksError(l) ==
    IF l.kind = "absent" THEN Null
    ELSE IF l.kind # "array" THEN "supporting_links must be an array of URLs"
         ELSE LinkItemsError(l.items)

StartSubmitV2With(r, links) ==
    /\ Free(r)
    /\ \E u \in Users, pr_url \in PrUrlInputs, supporting_links \in links :
         LET q == [Idle EXCEPT !.op = "submitV2", !.user = u,
                               !.supporting_links = supporting_links] IN
         reqs' = [reqs EXCEPT ![r] =
             IF bounty.assigneeId # u
             THEN Reply(r, q, 403, "Forbidden: You must be the assigned developer")
             ELSE IF pr_url = Absent
                  THEN Reply(r, q, 400, "pr_url is required and must be a non-empty string")
             ELSE IF ~isValidHttpUrl(pr_url)
                  THEN Reply(r, q, 400, "pr_url must be a valid http(s) URL")
             ELSE IF SupportingLinksError(supporting_links) # Null
                  THEN Reply(r, q, 400, SupportingLinksError(supporting_links))
                  ELSE [q EXCEPT !.pc = "tx"]]
    /\ UNCHANGED store

\* a body without supporting_links
StartSubmitV2(r) == StartSubmitV2With(r, {NoLinks})

\* a body with any supporting_links
StartSubmitV2AnyLinks(r) == StartSubmitV2With(r, SupportingLinksInputs)

SubmitV2Tx(r) ==
    /\ reqs[r].op = "submitV2" /\ reqs[r].pc = "tx"
    /\ Len(submissions) < MaxSubs
    /\ submissions' = Append(submissions, NewSubmission(reqs[r].user))
    /\ bounty' = [bounty EXCEPT !.status = "in_review"]
    /\ reqs' = [reqs EXCEPT ![r] =
                  Reply(r, [@ EXCEPT !.id = Len(submissions) + 1], 200,
                        "Work submitted for review")]
    /\ UNCHANGED <<recVars, observed, disputeRows, payouts, extensionRequests, disputes, applications>>

\* ------------------------------------------------- POST /bounties/:id/complete
StartComplete(r) ==
    /\ Free(r)
    /\ \E u \in Users :
         LET q == [Idle EXCEPT !.op = "complete", !.user = u] IN
         reqs' = [reqs EXCEPT ![r] =
             IF ~isAssignee(u, bounty) THEN Reply(r, q, 403, "Forbidden")
             ELSE [q EXCEPT !.pc = "update"]]
    /\ UNCHANGED store

CompleteUpdate(r) ==
    /\ reqs[r].op = "complete" /\ reqs[r].pc = "update"
    /\ bounty' = [bounty EXCEPT !.status = "in_review"]
    /\ reqs' = [reqs EXCEPT ![r] = Reply(r, @, 200, "Bounty submitted for review")]
    /\ UNCHANGED <<recVars, observed, disputeRows, payouts, extensionRequests, submissions, disputes, applications>>

\* ---------------------------------------------------------- PATCH /bounties/:id
PatchWith(r, statuses, assignees) ==
    /\ Free(r)
    /\ \E u \in Users, st \in statuses, as \in assignees :
         LET q == [Idle EXCEPT !.op = "patch", !.user = u] IN
         reqs' = [reqs EXCEPT ![r] =
             IF ~isCreator(u, bounty) THEN Reply(r, q, 403, "Forbidden")
             ELSE [q EXCEPT !.pc = "update", !.status = st, !.assigneeId = as]]
    /\ UNCHANGED store

\* any body at all: the handler spreads it into the update unvalidated (the
\* specifications below draw only the assignment body)
StartPatch(r) == PatchWith(r, PatchStatusInputs, PatchAssigneeInputs)

\* the body a creator sends to assign an open bounty to a developer
StartAssign(r) ==
    /\ bounty.status = "open"
    /\ PatchWith(r, {"assigned"}, {"D1"})

PatchUpdate(r) ==
    /\ reqs[r].op = "patch" /\ reqs[r].pc = "update"
    /\ bounty' = [bounty EXCEPT
                    !.status = IF reqs[r].status = Absent THEN @ ELSE reqs[r].status,
                    !.assigneeId = IF reqs[r].assigneeId = Absent THEN @
                                   ELSE reqs[r].assigneeId]
    /\ reqs' = [reqs EXCEPT ![r] = Reply(r, @, 200, "Bounty updated")]
    /\ UNCHANGED <<recVars, observed, disputeRows, payouts, extensionRequests, submissions, disputes, applications>>

\* --------------------------------------------------- POST /bounties/:id/apply
ApplicationRow(a) ==
    [bountyId |-> BountyId, applicantId |-> a, status |-> "pending"]

\* a table without the unique index
UniqueViolationNever(apps, row) == FALSE

\* applications_bounty_id_applicant_id_key
UniqueViolation(apps, row) ==
    \E x \in BagToSet(apps) :
        x.bountyId = row.bountyId /\ x.applicantId = row.applicantId

StartApply(r) ==
    /\ Free(r)
    /\ \E bid \in BountyIdInputs, coverLetter \in CoverLetterInputs, a \in Users :
         LET q == [Idle EXCEPT !.op = "apply", !.applicantId = a] IN
         reqs' = [reqs EXCEPT ![r] =
             IF ~uuidRegexTest(bid) THEN Reply(r, q, 400, "Invalid bounty ID format")
             ELSE IF coverLetter = "" THEN Reply(r, q, 400, "coverLetter is required")
             ELSE IF bid # BountyId THEN Reply(r, q, 404, "Bounty not found")
             ELSE IF bounty.status # "open"
                  THEN Reply(r, q, 400, "Bounty is no longer open for applications")
                  ELSE [q EXCEPT !.pc = "insert"]]
    /\ UNCHANGED store

ApplyInsert(r) ==
    /\ reqs[r].op = "apply" /\ reqs[r].pc = "insert"
    /\ LET row == ApplicationRow(reqs[r].applicantId) IN
       IF UniqueViolation(applications, row)
       THEN /\ reqs' = [reqs EXCEPT ![r] =
                 Reply(r, @, 400, "You have already applied for this bounty")]
            /\ applications' = applications
       ELSE /\ applications' = applications (+) SetToBag({row})
            /\ reqs' = [reqs EXCEPT ![r] = Reply(r, @, 201, "created")]
    /\ UNCHANGED <<recVars, observed, disputeRows, payouts, extensionRequests, bounty, submissions, disputes>>

\* the condition of the catch around the INSERT
ApplyCatchIsDuplicate(e) ==
    Includes(e.message, <<"unique", "constraint">>) \/ e.code = UniqueViolationCode

\* the INSERT rejects with some error: the catch answers or rethrows
ApplyInsertRejects(r) ==
    /\ reqs[r].op = "apply" /\ reqs[r].pc = "insert"
    /\ \E e \in ErrorInputs :
         LET q == [reqs[r] EXCEPT !.caught = e] IN
         reqs' = [reqs EXCEPT ![r] =
             IF ApplyCatchIsDuplicate(e)
             THEN Reply(r, q, 400, "You have already applied for this bounty")
             ELSE Reply(r, q, 500, "Internal server error")]
    /\ UNCHANGED store

\* ---------------------------------------------------- POST /tasks/:bountyId/extend
\* new Date(new_deadline) of a string that parses
IsValidDate(d) == d.kind = "date"

\* the extension_requests table has two plain indexes and no unique one
ExtensionUniqueViolation(rows, row) == FALSE

StartExtend(r) ==
    /\ Free(r)
    /\ \E u \in Users :
         LET q == [Idle EXCEPT !.op = "extend", !.user = u] IN
         reqs' = [reqs EXCEPT ![r] =
             IF ~isAssignee(u, bounty) THEN Reply(r, q, 403, "Forbidden")
             ELSE [q EXCEPT !.pc = "insert"]]
    /\ UNCHANGED store

\* the body checks, then the insert and its catch
ExtendInsert(r) ==
    /\ reqs[r].op = "extend" /\ reqs[r].pc = "insert"
    /\ \E new_deadline \in DeadlineInputs :
         LET row == [developerId |-> reqs[r].user, newDeadline |-> new_deadline.t,
                     status |-> "pending"] IN
         IF new_deadline.kind = "absent"
         THEN /\ reqs' = [reqs EXCEPT ![r] =
                   Reply(r, @, 400, "new_deadline is required (ISO 8601 datetime string)")]
              /\ UNCHANGED extensionRequests
         ELSE IF ~IsValidDate(new_deadline)
         THEN /\ reqs' = [reqs EXCEPT ![r] =
                   Reply(r, @, 400, "new_deadline must be a valid date string")]
              /\ UNCHANGED extensionRequests
         ELSE IF new_deadline.t <= Now
         THEN /\ reqs' = [reqs EXCEPT ![r] =
                   Reply(r, @, 400, "new_deadline must be in the future")]
              /\ UNCHANGED extensionRequests
         ELSE IF ExtensionUniqueViolation(extensionRequests, row)
         THEN /\ reqs' = [reqs EXCEPT ![r] =
                   Reply(r, @, 409, "You already have a pending extension request for this bounty")]
              /\ UNCHANGED extensionRequests
         ELSE /\ Len(extensionRequests) < MaxExtensions
              /\ extensionRequests' = Append(extensionRequests, row)
              /\ reqs' = [reqs EXCEPT ![r] = Reply(r, @, 201, "created")]
    /\ UNCHANGED <<recVars, observed, disputeRows, payouts, bounty, submissions, disputes, applications>>

\* the condition of the catch around the insert
ExtendCatchIsDuplicate(e) == e.code = UniqueViolationCode

\* the insert of a well-formed request rejects with some error
ExtendInsertRejects(r) ==
    /\ reqs[r].op = "extend" /\ reqs[r].pc = "insert"
    /\ \E e \in ErrorInputs :
         LET q == [reqs[r] EXCEPT !.caught = e] IN
         reqs' = [reqs EXCEPT ![r] =
             IF ExtendCatchIsDuplicate(e)
             THEN Reply(r, q, 409, "You already have a pending extension request for this bounty")
             ELSE Reply(r, q, 500, "Internal server error")]
    /\ UNCHANGED store

\* ------------------------------------------------ GET /bounties/recommended
\* String.prototype.toLowerCase, one character
ToLowerCase(ch) == IF ch = "A" THEN "a" ELSE ch

\* tag.trim().toLowerCase()
NormalizeTag(tag) == [i \in DOMAIN Trim(tag) |-> ToLowerCase(Trim(tag)[i])]

\* normalizeTags: every tag trimmed and lowered, the empty ones dropped
normalizeTags(input) ==
    SelectSeq([i \in DOMAIN input |-> NormalizeTag(input[i])],
              LAMBDA tag : tag # <<>>)

\* normalizedUserTags.join('|')
RECURSIVE JoinTags(_)
JoinTags(tags) ==
    IF tags = <<>> THEN <<>>
    ELSE IF Len(tags) = 1 THEN Head(tags)
         ELSE Head(tags) \o <<"|">> \o JoinTags(Tail(tags))

\* the ranking of the open bounties by userTagWeights(tags): it stands for the
\* tags it was computed from
Ranked(tags) == tags

\* whether a db.execute call of this run resolves
ExecuteOutcomes ==
    IF executeMode = "up" THEN {TRUE}
    ELSE IF executeMode = "down" THEN {FALSE} ELSE BOOLEAN

RecFree(r) == recReqs[r].pc = "done"

\* an earlier request has answered this user with a fresh ranking for the
\* same tags that has not expired
RepeatsFresh(r, u, tags) ==
    \E o \in Reqs \ {r} :
        /\ recReqs[o].pc = "done" /\ recReqs[o].resp = 200
        /\ ~recReqs[o].cached /\ recReqs[o].queried
        /\ recReqs[o].user = u /\ recReqs[o].tags = tags
        /\ recReqs[o].expiresAt > clock

RecStart(r) ==
    /\ RecFree(r)
    /\ \E u \in RecUsers :
         LET tags == normalizeTags(techStack[u]) IN
         recReqs' = [recReqs EXCEPT ![r] =
             [RecIdle EXCEPT !.pc = "get_ensure", !.user = u, !.tags = tags,
                             !.techKey = JoinTags(tags), !.now = clock,
                             !.repeat = RepeatsFresh(r, u, tags)]]
    /\ UNCHANGED <<lifecycle, recStore>>

\* clearExpiredRecommendationCache
ClearExpired(mem, now) ==
    [k \in {x \in DOMAIN mem : mem[x].expiresAt > now} |-> mem[k]]

\* neither expired nor stored under another tech key
EntryUsable(entry, techKey, now) ==
    entry.expiresAt > now /\ entry.techKey = techKey

RecCached(q, entry) ==
    [q EXCEPT !.pc = "done", !.resp = 200, !.cached = TRUE,
              !.data = entry.data, !.expiresAt = entry.expiresAt]

\* the in-memory part of getCachedRecommendations, and what the handler does
\* with its result
RecFromMemory(r) ==
    LET q == recReqs[r]
        mem == ClearExpired(recommendationsCache, q.now) IN
    /\ recommendationsCache' = mem
    /\ recReqs' = [recReqs EXCEPT ![r] =
          IF q.user \in DOMAIN mem /\ EntryUsable(mem[q.user], q.techKey, q.now)
          THEN RecCached(q, mem[q.user])
          ELSE [q EXCEPT !.pc = "query"]]

\* ensureRecommendationCacheTable inside getCachedRecommendations
RecGetEnsure(r) ==
    /\ recReqs[r].pc = "get_ensure"
    /\ IF recommendationCacheTableReady
       THEN /\ recReqs' = [recReqs EXCEPT ![r].pc = "get_select"]
            /\ UNCHANGED <<recommendationsCache, recommendationCacheTableReady>>
       ELSE \E ok \in ExecuteOutcomes :
              IF ok
              THEN /\ recommendationCacheTableReady' = TRUE
                   /\ recReqs' = [recReqs EXCEPT ![r].pc = "get_select"]
                   /\ UNCHANGED recommendationsCache
              ELSE /\ RecFromMemory(r)
                   /\ UNCHANGED recommendationCacheTableReady
    /\ UNCHANGED <<lifecycle, techStack, recommendation_cache, clock, executeMode>>

\* the SELECT on recommendation_cache and the checks on its row
RecGetSelect(r) ==
    /\ recReqs[r].pc = "get_select"
    /\ \E ok \in ExecuteOutcomes :
         LET q == recReqs[r] IN
         IF ok
         THEN /\ recReqs' = [recReqs EXCEPT ![r] =
                   IF /\ q.user \in DOMAIN recommendation_cache
                      /\ EntryUsable(recommendation_cache[q.user], q.techKey, q.now)
                   THEN RecCached(q, recommendation_cache[q.user])
                   ELSE [q EXCEPT !.pc = "query"]]
              /\ UNCHANGED recommendationsCache
         ELSE RecFromMemory(r)
    /\ UNCHANGED <<lifecycle, techStack, recommendation_cache,
                   recommendationCacheTableReady, clock, executeMode>>

\* db.query.bounties.findMany and the ranking of what it returns
RecQuery(r) ==
    /\ recReqs[r].pc = "query"
    /\ LET q == recReqs[r] IN
       recReqs' = [recReqs EXCEPT ![r] =
          [q EXCEPT !.pc = "set_ensure", !.queried = TRUE,
                    !.data = Ranked(q.tags),
                    !.expiresAt = q.now + RECOMMENDATION_CACHE_TTL_MS]]
    /\ UNCHANGED <<lifecycle, recStore>>

RecEntry(q) == [expiresAt |-> q.expiresAt, techKey |-> q.techKey, data |-> q.data]

Put(map, key, entry) ==
    [k \in DOMAIN map \cup {key} |-> IF k = key THEN entry ELSE map[k]]

RecFresh(q) == [q EXCEPT !.pc = "done", !.resp = 200, !.cached = FALSE]

\* recommendationsCache.set and the handler's answer
RecToMemory(r) ==
    /\ recommendationsCache' =
          Put(recommendationsCache, recReqs[r].user, RecEntry(recReqs[r]))
    /\ recReqs' = [recReqs EXCEPT ![r] = RecFresh(@)]

\* ensureRecommendationCacheTable inside setCachedRecommendations
RecSetEnsure(r) ==
    /\ recReqs[r].pc = "set_ensure"
    /\ IF recommendationCacheTableReady
       THEN /\ recReqs' = [recReqs EXCEPT ![r].pc = "set_insert"]
            /\ UNCHANGED <<recommendationsCache, recommendationCacheTableReady>>
       ELSE \E ok \in ExecuteOutcomes :
              IF ok
              THEN /\ recommendationCacheTableReady' = TRUE
                   /\ recReqs' = [recReqs EXCEPT ![r].pc = "set_insert"]
                   /\ UNCHANGED recommendationsCache
              ELSE /\ RecToMemory(r)
                   /\ UNCHANGED recommendationCacheTableReady
    /\ UNCHANGED <<lifecycle, techStack, recommendation_cache, clock, executeMode>>

\* INSERT ... ON CONFLICT (cache_key) DO UPDATE
RecSetInsert(r) ==
    /\ recReqs[r].pc = "set_insert"
    /\ \E ok \in ExecuteOutcomes :
         IF ok
         THEN /\ recommendation_cache' =
                   Put(recommendation_cache, recReqs[r].user, RecEntry(recReqs[r]))
              /\ recReqs' = [recReqs EXCEPT ![r] = RecFresh(@)]
              /\ UNCHANGED recommendationsCache
         ELSE /\ RecToMemory(r)
              /\ UNCHANGED recommendation_cache
    /\ UNCHANGED <<lifecycle, techStack, recommendationCacheTableReady, clock,
                   executeMode>>

\* Date.now() moves on
Tick ==
    /\ clock < MaxClock
    /\ clock' = clock + 1
    /\ UNCHANGED <<lifecycle, techStack, recommendation_cache, recommendationsCache,
                   recommendationCacheTableReady, executeMode, recReqs>>

\* the user's row gets another tech_stack
SetTechStack ==
    /\ \E u \in RecUsers, stack \in TechStackInputs :
         /\ stack # techStack[u]
         /\ techStack' = [techStack EXCEPT ![u] = stack]
    /\ UNCHANGED <<lifecycle, recommendation_cache, recommendationsCache,
                   recommendationCacheTableReady, clock, executeMode, recReqs>>

\* ------------------------------------------------------------ storage failure
\* an awaited store call of a request in flight rejects: the handler unwinds
\* (an open transaction rolls back) and app.onError answers 500.  A rejection
\* of a handler's very first read answers 500 before anything was read and is
\* not drawn.
Fault(r) ==
    /\ reqs[r].pc # "done"
    /\ reqs' = [reqs EXCEPT ![r] = Reply(r, @, 500, "Internal server error")]
    /\ UNCHANGED store

\* ------------------------------------------------------------ specifications
\* The whole lifecycle from a fresh open bounty, two requests at a time.  The
\* creator's PATCH is used to assign the open bounty.
Next ==
    \E r \in Reqs :
        \/ StartAssign(r) \/ PatchUpdate(r)
        \/ StartSubmit(r) \/ SubmitStatus(r) \/ SubmitInsert(r) \/ SubmitUpdate(r)
        \/ StartSubmitV2(r) \/ SubmitV2Tx(r)
        \/ StartComplete(r) \/ CompleteUpdate(r)
        \/ StartApprove(r) \/ ApproveTx(r)
        \/ StartReject(r) \/ RejectTx(r)
        \/ StartDispute(r) \/ DisputeExisting(r) \/ DisputeInsert(r)
        \/ StartResolve(r) \/ ResolveTx(r)
        \/ Fault(r)

Spec == Init /\ [][Next]_vars

\* A bounty in review: D1 was assigned and has submitted once.  Both callers
\* are observed.
InitReview ==
    /\ bounty = [status |-> "in_review", assigneeId |-> "D1", creatorId |-> CreatorId,
                 deadline |-> BountyDeadline]
    /\ submissions = <<NewSubmission("D1")>>
    /\ disputes = <<>>
    /\ applications = EmptyBag
    /\ extensionRequests = <<>>
    /\ payouts = <<>>
    /\ reqs = [r \in Reqs |-> Idle]
    /\ observed = Reqs
    /\ disputeRows = MaxDisputes
    /\ RecInit

NextReview ==
    \E r \in Reqs :
        \/ StartApprove(r) \/ ApproveTx(r)
        \/ StartReject(r) \/ RejectTx(r)
        \/ Fault(r)

SpecReview == InitReview /\ [][NextReview]_vars

\* The creator has rejected D1's submission: the bounty is back to assigned.
InitDispute ==
    /\ bounty = [status |-> "assigned", assigneeId |-> "D1", creatorId |-> CreatorId,
                 deadline |-> BountyDeadline]
    /\ submissions = <<[NewSubmission("D1") EXCEPT !.status = "rejected",
                                                   !.rejectionReason = <<"t">>]>>
    /\ disputes = <<>>
    /\ applications = EmptyBag
    /\ extensionRequests = <<>>
    /\ payouts = <<>>
    /\ reqs = [r \in Reqs |-> Idle]
    /\ observed = Reqs
    /\ disputeRows = MaxDisputes
    /\ RecInit

NextDispute ==
    \E r \in Reqs :
        \/ StartDispute(r) \/ DisputeExisting(r) \/ DisputeInsert(r)
        \/ StartResolve(r) \/ ResolveTx(r)
        \/ Fault(r)

SpecDispute == InitDispute /\ [][NextDispute]_vars

\* Applications to a fresh open bounty, which the creator may assign meanwhile.
InitApply ==
    /\ bounty = [status |-> "open", assigneeId |-> Null, creatorId |-> CreatorId,
                 deadline |-> BountyDeadline]
    /\ submissions = <<>>
    /\ disputes = <<>>
    /\ applications = EmptyBag
    /\ extensionRequests = <<>>
    /\ payouts = <<>>
    /\ reqs = [r \in Reqs |-> Idle]
    /\ observed = Reqs
    /\ disputeRows = MaxDisputes
    /\ RecInit

NextApply ==
    \E r \in Reqs :
        \/ StartApply(r) \/ ApplyInsert(r)
        \/ StartAssign(r) \/ PatchUpdate(r)
        \/ Fault(r)

SpecApply == InitApply /\ [][NextApply]_vars

\* Two open-dispute calls on the rejected submission: the table has room for
\* one row more than elsewhere, so that both inserts can land.
InitDisputeRace ==
    /\ bounty = [status |-> "assigned", assigneeId |-> "D1", creatorId |-> CreatorId,
                 deadline |-> BountyDeadline]
    /\ submissions = <<[NewSubmission("D1") EXCEPT !.status = "rejected",
                                                   !.rejectionReason = <<"t">>]>>
    /\ disputes = <<>>
    /\ applications = EmptyBag
    /\ extensionRequests = <<>>
    /\ payouts = <<>>
    /\ reqs = [r \in Reqs |-> Idle]
    /\ observed = Reqs
    /\ disputeRows = MaxDisputes + 1
    /\ RecInit

NextDisputeRace ==
    \E r \in Reqs :
        \/ StartDispute(r) \/ DisputeExisting(r) \/ DisputeInsert(r)
        \/ Fault(r)

SpecDisputeRace == InitDisputeRace /\ [][NextDisputeRace]_vars

\* Deadline extensions asked for by the developer of an assigned bounty.
InitExtend ==
    /\ bounty = [status |-> "assigned", assigneeId |-> "D1", creatorId |-> CreatorId,
                 deadline |-> BountyDeadline]
    /\ submissions = <<>>
    /\ disputes = <<>>
    /\ applications = EmptyBag
    /\ extensionRequests = <<>>
    /\ payouts = <<>>
    /\ reqs = [r \in Reqs |-> Idle]
    /\ observed = Reqs
    /\ disputeRows = MaxDisputes
    /\ RecInit

NextExtend ==
    \E r \in Reqs :
        \/ StartExtend(r) \/ ExtendInsert(r)
        \/ Fault(r)

SpecExtend == InitExtend /\ [][NextExtend]_vars

\* Work submitted by the developer of an assigned bounty through either
\* handler, both callers observed.
NextSubmit ==
    \E r \in Reqs :
        \/ StartSubmit(r) \/ SubmitStatus(r) \/ SubmitInsert(r) \/ SubmitUpdate(r)
        \/ StartSubmitV2(r) \/ SubmitV2Tx(r)
        \/ Fault(r)

SpecSubmit == InitExtend /\ [][NextSubmit]_vars

\* The operations of the reference scenario, from a fresh open bounty: apply,
\* assign, submit, reject, open a dispute, resolve.
NextScenario ==
    \E r \in Reqs :
        \/ StartApply(r) \/ ApplyInsert(r)
        \/ StartAssign(r) \/ PatchUpdate(r)
        \/ StartSubmitV2(r) \/ SubmitV2Tx(r)
        \/ StartReject(r) \/ RejectTx(r)
        \/ StartDispute(r) \/ DisputeExisting(r) \/ DisputeInsert(r)
        \/ StartResolve(r) \/ ResolveTx(r)
        \/ Fault(r)

SpecScenario == Init /\ [][NextScenario]_vars

\* Inserts of applications and extension requests that the store rejects
\* with an error of any kind; the creator assigns the bounty in between.
NextInsertError ==
    \E r \in Reqs :
        \/ StartApply(r) \/ ApplyInsert(r) \/ ApplyInsertRejects(r)
        \/ StartAssign(r) \/ PatchUpdate(r)
        \/ StartExtend(r) \/ ExtendInsert(r) \/ ExtendInsertRejects(r)

SpecInsertError == InitApply /\ [][NextInsertError]_vars

\* Reads of a submission by any principal while the bounty is in review.
NextView ==
    \E r \in Reqs :
        \/ StartView(r) \/ ViewBounty(r) \/ ViewDispute(r)
        \/ Fault(r)

SpecView == InitReview /\ [][NextView]_vars

\* Rejection of the submitted work and the developer's next submission
\* through either handler, both callers observed.
NextResubmit ==
    \E r \in Reqs :
        \/ StartReject(r) \/ RejectTx(r)
        \/ StartSubmit(r) \/ SubmitStatus(r) \/ SubmitInsert(r) \/ SubmitUpdate(r)
        \/ StartSubmitV2(r) \/ SubmitV2Tx(r)
        \/ Fault(r)

SpecResubmit == InitReview /\ [][NextResubmit]_vars

\* Calls of the developer of an assigned bounty whose bodies carry anything:
\* submissions with any supporting_links, extensions with any new_deadline.
NextPayload ==
    \E r \in Reqs :
        \/ StartSubmit(r) \/ SubmitStatusAnyLinks(r) \/ SubmitInsert(r)
        \/ SubmitUpdate(r)
        \/ StartSubmitV2AnyLinks(r) \/ SubmitV2Tx(r)
        \/ StartExtend(r) \/ ExtendInsert(r)
        \/ Fault(r)

SpecPayload == InitExtend /\ [][NextPayload]_vars

\* Recommendation requests of a user whose tech stack stays as it is, with a
\* db.execute that always resolves, always rejects, or does either.
InitRepeat ==
    /\ bounty = [status |-> "open", assigneeId |-> Null, creatorId |-> CreatorId,
                 deadline |-> BountyDeadline]
    /\ submissions = <<>>
    /\ disputes = <<>>
    /\ applications = EmptyBag
    /\ extensionRequests = <<>>
    /\ payouts = <<>>
    /\ reqs = [r \in Reqs |-> Idle]
    /\ observed = {}
    /\ disputeRows = MaxDisputes
    /\ techStack \in [RecUsers -> TechStackInputs]
    /\ recommendation_cache = << >>
    /\ recommendationsCache = << >>
    /\ recommendationCacheTableReady = FALSE
    /\ clock = 0
    /\ executeMode \in ExecuteModes
    /\ recReqs = [r \in Reqs |-> RecIdle]

NextRepeat ==
    \/ \E r \in Reqs :
          \/ RecStart(r) \/ RecGetEnsure(r) \/ RecGetSelect(r)
          \/ RecQuery(r) \/ RecSetEnsure(r) \/ RecSetInsert(r)
    \/ Tick

SpecRepeat == InitRepeat /\ [][NextRepeat]_vars

\* The same requests of a user whose tech stack may change at any time, each
\* db.execute call resolving or rejecting as it likes.
InitRecommend == InitRepeat /\ executeMode = "flaky"

NextRecommend == NextRepeat \/ SetTechStack

SpecRecommend == InitRecommend /\ [][NextRecommend]_vars

\* The review of submitted work and what may follow it, both callers observed:
\* approve, reject, open a dispute, resolve it.
NextAfterSubmit ==
    \E r \in Reqs :
        \/ StartApprove(r) \/ ApproveTx(r)
        \/ StartReject(r) \/ RejectTx(r)
        \/ StartDispute(r) \/ DisputeExisting(r) \/ DisputeInsert(r)
        \/ StartResolve(r) \/ ResolveTx(r)
        \/ Fault(r)

SpecAfterSubmit == InitReview /\ [][NextAfterSubmit]_vars

\* ------------------------------------------------------------------ claims
Stepped(r) == reqs'[r] # reqs[r]

ActiveStatuses == {"assigned", "in_review", "completed"}

\* C1: a bounty has an assignee exactly when its status is assigned, in_review
\* or completed.
AssigneeIffActive ==
    (bounty.assigneeId # Null) <=> (bounty.status \in ActiveStatuses)

\* C2: a bounty in review always has a pending submission.
InReviewHasPending ==
    bounty.status = "in_review" =>
        \E i \in DOMAIN submissions : submissions[i].status = "pending"

\* C3: a completed bounty has an approved submission, and the step that
\* completes a bounty leaves the submission it acted on approved.
TargetSub(q) == IF q.op = "resolve" THEN disputes[q.id].submissionId ELSE q.id

SubmitOnlyWhenAssigned ==
    [][Len(submissions') > Len(submissions) => bounty.status = "assigned"]_vars

\* C5: at most one application per (bounty, applicant); an apply that reaches
\* the insert is answered 201 when no such row exists and "already applied"
\* when one does, so of two racing calls exactly one succeeds.
AlreadyApplied == "You have already applied for this bounty"

ApproveRejectNotBoth ==
    ~ \E r1, r2 \in Reqs :
        /\ reqs[r1].op = "approve" /\ reqs[r2].op = "reject"
        /\ reqs[r1].id = reqs[r2].id
        /\ reqs[r1].resp = 200 /\ reqs[r2].resp = 200

\* C7: an approve call that finds the submission approved is answered 422 (403
\* to a caller who is not the creator), goes no further and writes nothing.
ApproveOfApprovedFails ==
    [][\A r \in Reqs :
        (/\ Free(r) /\ Stepped(r) /\ reqs'[r].op = "approve"
         /\ reqs'[r].id \in DOMAIN submissions
         /\ submissions[reqs'[r].id].status = "approved")
        => /\ reqs'[r].pc = "done"
           /\ reqs'[r].resp = IF reqs'[r].user = bounty.creatorId THEN 422 ELSE 403
           /\ UNCHANGED <<bounty, submissions, disputes>>]_vars

SecondApproveRefused ==
    \E r \in Reqs :
        /\ reqs[r].op = "approve" /\ reqs[r].resp = 422
        /\ submissions[reqs[r].id].status = "approved"
        /\ bounty.status = "completed"

\* C8: the commit of a resolved_developer resolution either changes nothing
\* or leaves the dispute resolved, the submission approved and the bounty
\* completed.
ResolveDeveloperAllOrNothing ==
    [][\A r \in Reqs :
        (/\ reqs[r].op = "resolve" /\ reqs[r].pc = "tx"
         /\ reqs[r].resolution = "resolved_developer" /\ Stepped(r))
        => LET did == reqs[r].id
               sid == disputes[did].submissionId IN
           \/ UNCHANGED <<bounty, submissions, disputes>>
           \/ /\ disputes'[did].status = "resolved"
              /\ submissions'[sid].status = "approved"
              /\ bounty'.status = "completed"]_vars

ResolvedForDeveloper ==
    /\ Len(disputes) = 1 /\ disputes[1].status = "resolved"
    /\ submissions[disputes[1].submissionId].status = "approved"
    /\ bounty.status = "completed"

\* C9: a resolve answered 200 for resolved_creator leaves the dispute dismissed,
\* the bounty open with no assignee and the submission rejected.
ResolveCreatorReopens ==
    [][\A r \in Reqs :
        (/\ reqs[r].op = "resolve" /\ reqs[r].pc = "tx"
         /\ reqs[r].resolution = "resolved_creator" /\ reqs'[r].resp = 200)
        => LET did == reqs[r].id
               sid == disputes[did].submissionId IN
           /\ disputes'[did].status = "dismissed"
           /\ bounty'.status = "open" /\ bounty'.assigneeId = Null
           /\ submissions'[sid].status = "rejected"]_vars

ResolvedForCreator ==
    \E r \in Reqs :
        /\ reqs[r].op = "resolve" /\ reqs[r].resolution = "resolved_creator"
        /\ reqs[r].resp = 200
        /\ disputes[reqs[r].id].status = "dismissed"
        /\ bounty.status = "open" /\ bounty.assigneeId = Null

\* C10: an open-dispute call that finds the submission not rejected is
\* answered 422 (403 to a caller who is not its developer), goes no further
\* and creates no dispute.
DisputeOfNonRejectedFails ==
    [][\A r \in Reqs :
        (/\ Free(r) /\ Stepped(r) /\ reqs'[r].op = "dispute"
         /\ reqs'[r].id \in DOMAIN submissions
         /\ submissions[reqs'[r].id].status # "rejected")
        => /\ reqs'[r].pc = "done"
           /\ reqs'[r].resp =
                IF reqs'[r].user = submissions[reqs'[r].id].developerId
                THEN 422 ELSE 403
           /\ UNCHANGED <<bounty, submissions, disputes>>]_vars

DisputeRefused ==
    \E r \in Reqs :
        /\ reqs[r].op = "dispute" /\ reqs[r].resp = 422
        /\ submissions[reqs[r].id].status = "approved"
        /\ disputes = <<[submissionId |-> 1, status |-> "resolved"]>>

\* C11: a resolve call that finds the dispute resolved or dismissed is answered
\* 422 whatever the resolution and whoever the caller, goes no further and
\* writes nothing.
ResolveOfClosedFails ==
    [][\A r \in Reqs :
        (/\ Free(r) /\ Stepped(r) /\ reqs'[r].op = "resolve"
         /\ reqs'[r].id \in DOMAIN disputes
         /\ disputes[reqs'[r].id].status # "open")
        => /\ reqs'[r].pc = "done"
           /\ reqs'[r].resp = 422
           /\ UNCHANGED <<bounty, submissions, disputes>>]_vars

ResolveOfClosedRefused ==
    \E r1, r2 \in Reqs :
        /\ reqs[r1].op = "resolve" /\ reqs[r1].resp = 422
        /\ disputes[reqs[r1].id].status = "resolved"
        /\ reqs[r2].op = "resolve" /\ reqs[r2].resp = 422
        /\ reqs[r2].user # reqs[r1].user

\* C12: two resolve calls on the same dispute never both succeed.
ResolveNotBoth ==
    ~ \E r1, r2 \in Reqs :
        /\ r1 # r2
        /\ reqs[r1].op = "resolve" /\ reqs[r2].op = "resolve"
        /\ reqs[r1].id = reqs[r2].id
        /\ reqs[r1].resp = 200 /\ reqs[r2].resp = 200

\* C13: a submission never has two open disputes.
OneOpenDisputePerSubmission ==
    \A d1, d2 \in DOMAIN disputes :
        (/\ disputes[d1].submissionId = disputes[d2].submissionId
         /\ disputes[d1].status = "open" /\ disputes[d2].status = "open")
        => d1 = d2

\* C14: a developer never has two pending extension requests for the bounty.
OnePendingExtensionPerDeveloper ==
    \A i, j \in DOMAIN extensionRequests :
        (/\ extensionRequests[i].developerId = extensionRequests[j].developerId
         /\ extensionRequests[i].status = "pending"
         /\ extensionRequests[j].status = "pending")
        => i = j

\* C15: an application is only ever inserted while the stored bounty status
\* is open.
ApplyOnlyWhenOpen ==
    [][applications' # applications => bounty.status = "open"]_vars

\* C16: no application has the bounty's creator as its applicant.
NoApplicationByCreator ==
    \A x \in BagToSet(applications) : x.applicantId # bounty.creatorId

\* C17: a resolve call by someone other than the creator, and an open-dispute
\* call by someone other than the submission's developer, is answered 403 and
\* writes nothing.
ForbiddenResolveAndDispute ==
    [][\A r \in Reqs :
        (/\ Free(r) /\ Stepped(r)
         /\ \/ /\ reqs'[r].op = "resolve"
               /\ reqs'[r].id \in DOMAIN disputes
               /\ reqs'[r].user # bounty.creatorId
            \/ /\ reqs'[r].op = "dispute"
               /\ reqs'[r].id \in DOMAIN submissions
               /\ reqs'[r].user # submissions[reqs'[r].id].developerId)
        => /\ reqs'[r].pc = "done"
           /\ reqs'[r].resp = 403
           /\ UNCHANGED <<bounty, submissions, disputes, extensionRequests>>]_vars

\* C18: a submit call that ended in a storage failure has left no submission
\* behind.
FailedSubmitLeavesNothing ==
    \A r \in Reqs :
        (reqs[r].op \in {"submit", "submitV2"} /\ reqs[r].resp = 500)
            => reqs[r].id \notin DOMAIN submissions

\* C19: at the end of the reference scenario (D1 applied and was assigned, its
\* submission was rejected with a reason, disputed and the dispute resolved
\* for the developer) the bounty is completed, the submission approved, and
\* exactly one payout has been triggered, for (B1, D1).
ScenarioEnd ==
    /\ applications = SetToBag({ApplicationRow("D1")})
    /\ bounty.status = "completed" /\ bounty.assigneeId = "D1"
    /\ submissions = <<[developerId |-> "D1", status |-> "approved",
                        rejectionReason |-> <<"t">>]>>
    /\ disputes = <<[submissionId |-> 1, status |-> "resolved"]>>

ScenarioPaysOnce ==
    ScenarioEnd => payouts = <<[bountyId |-> BountyId, payee |-> "D1"]>>

\* C20: every extension request asks for a deadline later than the time of
\* the request and later than the bounty's deadline.
ExtensionLaterThanNowAndDeadline ==
    \A i \in DOMAIN extensionRequests :
        /\ extensionRequests[i].newDeadline > Now
        /\ extensionRequests[i].newDeadline > bounty.deadline

\* C21: every submission, at the step that creates it, has the bounty's
\* stored assignee of that moment as its developer.
SubmissionByStoredAssignee ==
    [][Len(submissions') > Len(submissions)
        => submissions'[Len(submissions')].developerId = bounty.assigneeId]_vars

\* C22: a rejected submission always has a non-empty rejection reason; a
\* reject call by the creator on a pending submission either carries a reason
\* that is a string with something besides blanks or is answered 400, and no
\* reject call changes anything before its transaction.
HasReason(reason) == IsString(reason) /\ Trim(reason) # <<>>

RejectedHasReason ==
    [][/\ \A i \in DOMAIN submissions' :
            submissions'[i].status = "rejected"
                => HasReason(submissions'[i].rejectionReason)
       /\ \A r \in Reqs :
            (Free(r) /\ Stepped(r) /\ reqs'[r].op = "reject")
            => /\ UNCHANGED <<bounty, submissions, disputes>>
               /\ reqs'[r].pc = "tx" => HasReason(reqs'[r].rejection_reason)
               /\ (/\ reqs'[r].id \in DOMAIN submissions
                   /\ submissions[reqs'[r].id].status = "pending"
                   /\ reqs'[r].user = bounty.creatorId
                   /\ reqs'[r].pc # "tx")
                  => reqs'[r].pc = "done" /\ reqs'[r].resp = 400]_vars

\* a reject without a usable reason was refused, and a dismissed dispute left
\* the submission rejected with the reason it was given
RejectRefusedForReason ==
    \E r \in Reqs :
        /\ reqs[r].op = "reject" /\ reqs[r].resp = 400
        /\ submissions[reqs[r].id].status = "rejected"
        /\ HasReason(submissions[reqs[r].id].rejectionReason)
        /\ \E d \in DOMAIN disputes :
             disputes[d].submissionId = reqs[r].id /\ disputes[d].status = "dismissed"

\* C23: once a bounty is completed or cancelled, no step changes its status.
TerminalBountyStatuses == {"completed", "cancelled"}

BountyTerminalStays ==
    [][bounty.status \in TerminalBountyStatuses
        => bounty'.status = bounty.status]_vars

\* C24: once a submission is approved, no step changes its status.
ApprovedStays ==
    [][\A i \in DOMAIN submissions :
        submissions[i].status = "approved" => submissions'[i].status = "approved"]_vars

\* C25: a rejected insert of apply or extend is reported as a duplicate
\* exactly when the error carries the code 23505, whatever its message.
Conflicts == {"You have already applied for this bounty",
              "You already have a pending extension request for this bounty"}

ConflictIffUniqueViolationCode ==
    \A r \in Reqs :
        reqs[r].caught # NoError
            => (reqs[r].error \in Conflicts <=> reqs[r].caught.code = UniqueViolationCode)

\* C26: a view that the store does not fail is answered 404 for an unknown
\* submission whoever asks, 200 to the submission's developer and to the
\* bounty's creator, and 403 to everybody else; it writes nothing.
ViewIffOwnerOrCreator ==
    [][\A r \in Reqs :
        (Stepped(r) /\ reqs'[r].op = "view")
        => /\ UNCHANGED <<bounty, submissions, disputes>>
           /\ (reqs'[r].pc = "done" /\ reqs'[r].resp # 500)
              => LET q == reqs'[r] IN
                 reqs'[r].resp =
                    IF q.id \notin DOMAIN submissions THEN 404
                    ELSE IF q.user = submissions[q.id].developerId
                            \/ q.user = bounty.creatorId
                         THEN 200 ELSE 403]_vars

ViewAllowedAndRefused ==
    \E r1, r2 \in Reqs :
        /\ reqs[r1].op = "view" /\ reqs[r1].user = bounty.creatorId
        /\ reqs[r1].resp = 200
        /\ reqs[r2].op = "view" /\ reqs[r2].user = "U1"
        /\ reqs[r2].id = reqs[r1].id /\ reqs[r2].resp = 403

\* C27: every change of the bounty's status follows an edge of the
\* transition table.
BountyEdges ==
    {<<"open", "assigned">>, <<"assigned", "in_review">>,
     <<"in_review", "completed">>, <<"in_review", "assigned">>,
     <<"in_review", "open">>}

BountyFollowsEdges ==
    [][bounty'.status # bounty.status
        => <<bounty.status, bounty'.status>> \in BountyEdges]_vars

\* C28: every open dispute refers to a rejected submission, and a dispute is
\* only ever created by the developer of its submission.
OpenDisputeOfRejectedByDeveloper ==
    [][/\ \A d \in DOMAIN disputes' :
            disputes'[d].status = "open"
                => submissions'[disputes'[d].submissionId].status = "rejected"
       /\ \A r \in Reqs :
            (Stepped(r) /\ Len(disputes') > Len(disputes))
                => reqs[r].user = submissions[disputes'[Len(disputes')].submissionId].developerId]_vars

\* C29: no step leaves a submission disputed; a step of an open-dispute call
\* leaves the submissions and the bounty as they were, and the one that is
\* answered 201 adds exactly the open dispute of its submission.
DisputeOnlyAddsDispute ==
    [][/\ \A i \in DOMAIN submissions' : submissions'[i].status # "disputed"
       /\ \A r \in Reqs :
            (Stepped(r) /\ reqs'[r].op = "dispute")
            => /\ UNCHANGED <<bounty, submissions>>
               /\ IF reqs'[r].resp = 201
                  THEN disputes' = Append(disputes, [submissionId |-> reqs'[r].id,
                                                     status |-> "open"])
                  ELSE UNCHANGED disputes]_vars

DisputeOpenedOnRejected ==
    \E r \in Reqs :
        /\ reqs[r].op = "dispute" /\ reqs[r].resp = 201
        /\ disputes = <<[submissionId |-> reqs[r].id, status |-> "open"]>>
        /\ submissions[reqs[r].id].status = "rejected"
        /\ bounty.status = "assigned" /\ bounty.assigneeId = "D1"

\* C30: a reject answered 200 leaves the submission rejected and the bounty
\* assigned to the same assignee; a submit call of the assignee of an assigned
\* bounty is refused for its body only (400), and the submit that goes through
\* adds a pending submission of the caller and leaves the bounty in review.
RejectThenResubmit ==
    [][\A r \in Reqs :
        /\ (reqs[r].op = "reject" /\ reqs[r].pc = "tx" /\ reqs'[r].resp = 200)
           => /\ submissions'[reqs[r].id].status = "rejected"
              /\ bounty'.status = "assigned"
              /\ bounty'.assigneeId = bounty.assigneeId
        /\ (/\ Stepped(r) /\ reqs'[r].user = bounty.assigneeId
            /\ bounty.status = "assigned"
            /\ \/ Free(r) /\ reqs'[r].op \in {"submit", "submitV2"}
               \/ reqs[r].op = "submit" /\ reqs[r].pc = "status")
           => reqs'[r].pc # "done" \/ reqs'[r].resp \in {400, 500}
        /\ (reqs[r].op = "submitV2" /\ reqs[r].pc = "tx" /\ reqs'[r].resp = 200)
           => /\ submissions' = Append(submissions, NewSubmission(reqs[r].user))
              /\ bounty'.status = "in_review"
        /\ (reqs[r].op = "submit" /\ reqs[r].pc = "insert" /\ reqs'[r].pc = "update")
           => submissions' = Append(submissions, NewSubmission(reqs[r].user))
        /\ (reqs[r].op = "submit" /\ reqs[r].pc = "update" /\ reqs'[r].resp = 201)
           => bounty'.status = "in_review"]_vars

ResubmittedAfterReject ==
    \E r1, r2 \in Reqs :
        /\ reqs[r1].op = "reject" /\ reqs[r1].resp = 200 /\ reqs[r1].id = 1
        /\ reqs[r2].op \in {"submit", "submitV2"} /\ reqs[r2].resp \in {200, 201}
        /\ reqs[r2].user = "D1" /\ reqs[r2].id = 2
        /\ submissions = <<[developerId |-> "D1", status |-> "rejected",
                            rejectionReason |-> <<"t">>],
                           NewSubmission("D1")>>
        /\ bounty.status = "in_review" /\ bounty.assigneeId = "D1"

\* C31: the bounty never has two pending submissions.
AtMostOnePending ==
    Cardinality({i \in DOMAIN submissions : submissions[i].status = "pending"}) <= 1

\* C32: at most one call is answered with the "payment initiated" success,
\* and only once the bounty is completed.
PaymentInitiated ==
    {"Submission approved and payment initiated",
     "Dispute resolved in favour of the developer. Payment initiated."}

Paid(q) == q.resp = 200 /\ q.error \in PaymentInitiated

PaymentInitiatedAtMostOnce ==
    [][/\ Cardinality({r \in Reqs : Paid(reqs'[r])}) <= 1
       /\ \A r \in Reqs :
            (~Paid(reqs[r]) /\ Paid(reqs'[r])) => bounty'.status = "completed"]_vars

\* C33: a resolve call by someone other than the creator is answered 403
\* whether the dispute is open, resolved or dismissed.
ResolveForbiddenWhateverStatus ==
    [][\A r \in Reqs :
        (/\ Free(r) /\ Stepped(r) /\ reqs'[r].op = "resolve"
         /\ reqs'[r].id \in DOMAIN disputes
         /\ disputes[reqs'[r].id].status \in disputeStatusEnum
         /\ reqs'[r].user # bounty.creatorId)
        => reqs'[r].resp = 403]_vars

\* C34: a call whose body is malformed is answered 400 and writes nothing: a
\* submission is only inserted for a body whose supporting_links, when given,
\* are an array of http(s) URLs; a resolve goes on only with one of the two
\* resolutions and is otherwise answered 400; an open-dispute call that found
\* no dispute goes on or is answered 400; an extension is only inserted with a
\* date in the future and is otherwise refused; no such refusal writes.
LinksWellFormed(l) ==
    \/ l.kind = "absent"
    \/ l.kind = "array" /\ \A i \in DOMAIN l.items : l.items[i] = "https://x/pr/1"

MalformedPayloadRefused ==
    [][\A r \in Reqs :
        /\ (Stepped(r) /\ Len(submissions') > Len(submissions))
           => LinksWellFormed(reqs[r].supporting_links)
        /\ (/\ Stepped(r) /\ reqs'[r].op \in {"submit", "submitV2"}
            /\ ~LinksWellFormed(reqs'[r].supporting_links)
            /\ reqs'[r].user = bounty.assigneeId /\ bounty.status = "assigned")
           => /\ reqs'[r].pc = "done" /\ reqs'[r].resp \in {400, 500}
              /\ UNCHANGED <<bounty, submissions>>
        /\ (Free(r) /\ Stepped(r) /\ reqs'[r].op = "resolve")
           => /\ UNCHANGED <<bounty, submissions, disputes>>
              /\ reqs'[r].pc = "tx"
                    => reqs'[r].resolution \in {"resolved_developer", "resolved_creator"}
              /\ (/\ reqs'[r].id \in DOMAIN disputes
                  /\ disputes[reqs'[r].id].status = "open"
                  /\ reqs'[r].user = bounty.creatorId
                  /\ reqs'[r].pc # "tx")
                 => reqs'[r].resp = 400
        /\ (reqs[r].op = "dispute" /\ reqs[r].pc = "existing" /\ Stepped(r))
           => /\ UNCHANGED <<bounty, submissions, disputes>>
              /\ (/\ ~ \E d \in DOMAIN disputes : disputes[d].submissionId = reqs[r].id
                  /\ reqs'[r].pc = "done")
                 => reqs'[r].resp \in {400, 500}
        /\ (reqs[r].op = "extend" /\ reqs[r].pc = "insert" /\ Stepped(r))
           => \/ /\ reqs'[r].resp \in {400, 409, 500}
                 /\ UNCHANGED extensionRequests
              \/ /\ reqs'[r].resp = 201
                 /\ Len(extensionRequests') = Len(extensionRequests) + 1
                 /\ extensionRequests'[Len(extensionRequests')].newDeadline > Now]_vars

\* C35: a request is answered from the cache only out of an entry stored
\* for its user that expires later than the request's time and has the tech
\* key of the user's normalized tech stack, without a bounty query, and what
\* it returns was ranked for that tech stack.
ServedEntry(q, a, map) ==
    /\ q.user \in DOMAIN map
    /\ map[q.user].data = a.data /\ map[q.user].expiresAt = a.expiresAt
    /\ map[q.user].expiresAt > q.now
    /\ map[q.user].techKey = JoinTags(q.tags)

CachedOnlyIfFreshAndSameStack ==
    [][\A r \in Reqs :
        (recReqs[r].pc # "done" /\ recReqs'[r].pc = "done" /\ recReqs'[r].cached)
        => LET q == recReqs[r]
               a == recReqs'[r] IN
           /\ ~a.queried
           /\ \/ ServedEntry(q, a, recommendation_cache)
              \/ ServedEntry(q, a, recommendationsCache)
           /\ a.data = Ranked(q.tags)]_vars

\* C36: a request that repeats an unexpired fresh answer for the same user
\* and tech stack is served from the cache and never queries the bounties.
RepeatServedFromCache ==
    \A r \in Reqs :
        recReqs[r].repeat
            => /\ recReqs[r].pc # "query" /\ ~recReqs[r].queried
               /\ recReqs[r].pc = "done" => recReqs[r].cached

====
